---- MODULE Spec2Model ----
(***************************************************************************)
(* Model of the overland-flow driver of overland_flow.ipynb: the watershed *)
(* boundary cell (b639cd15) and the simulation cell (f28c0e9d).            *)
(*                                                                         *)
(* Times are Python floats.  A float is modelled as a record               *)
(*   [cls |-> "fin", v |-> n]   a finite value of n seconds,               *)
(*   [cls |-> "inf", v |-> 0]   +infinity,                                 *)
(*   [cls |-> "nan", v |-> 0]   not-a-number,                              *)
(* with IEEE-754 addition and comparison.  Finite values are whole         *)
(* seconds.                                                                *)
(*                                                                         *)
(* The landlab component OverlandFlow is a library: calc_time_step() is    *)
(* modelled by the set of values it may return, overland_flow() by a       *)
(* counter of its invocations, and discharge_mapper() by a symbolic array  *)
(* whose element read is named by node index and sub-step number.          *)
(***************************************************************************)
EXTENDS Integers, Sequences, FiniteSets

VARIABLES
    number_of_nodes,     \* model_grid.number_of_nodes (from dem_grid_shape)
    watershed_mask,      \* get_watershed_mask(model_grid, outlet), tracked nodes
    outlet,              \* outlet = profiler.nodes[0][0]
    status_at_node,      \* model_grid.status_at_node, on the tracked nodes
    model_run_time,      \* duration of run (s)
    storm_duration,      \* duration of rain (s)
    time_step,           \* reporting cadence (s)
    elapsed_time,        \* float
    dt,                  \* overland_flow.dt, float
    of_rainfall_intensity, \* overland_flow.rainfall_intensity
    of_calls,            \* number of overland_flow.overland_flow() invocations
    outlet_discharge,    \* list
    outlet_times,        \* list of floats
    iter,                \* number of values the for statement has taken from range
    time_slice,          \* the for statement's loop variable
    saved_figs,          \* figures written by fig.savefig, in order
    pc                   \* "for", "while", "plot", "done", "error"

vars == <<number_of_nodes, watershed_mask, outlet, status_at_node,
          model_run_time, storm_duration, time_step,
          elapsed_time, dt, of_rainfall_intensity, of_calls,
          outlet_discharge, outlet_times, iter, time_slice, saved_figs, pc>>

gridVars == <<number_of_nodes, watershed_mask, outlet, status_at_node>>
cfgVars == <<model_run_time, storm_duration, time_step>>

----------------------------------------------------------------------------
(* Bounds of the model *)

\* Sub-steps a run may execute before the model stops following it.
MaxSubSteps == 5

----------------------------------------------------------------------------
(* Python floats *)

Fin(n) == [cls |-> "fin", v |-> n]
Inf == [cls |-> "inf", v |-> 0]
NaN == [cls |-> "nan", v |-> 0]

IsFinite(a) == a.cls = "fin"

\* a + b
FloatAdd(a, b) ==
    IF a.cls = "nan" \/ b.cls = "nan" THEN NaN
    ELSE IF a.cls = "inf" \/ b.cls = "inf" THEN Inf
    ELSE Fin(a.v + b.v)

\* a < b : every comparison with NaN is False
FloatLt(a, b) ==
    /\ a.cls # "nan"
    /\ b.cls # "nan"
    /\ a.cls = "fin"
    /\ (b.cls = "inf" \/ a.v < b.v)

\* a <= b
FloatLe(a, b) ==
    /\ a.cls # "nan"
    /\ b.cls # "nan"
    /\ (b.cls = "inf" \/ (a.cls = "fin" /\ a.v <= b.v))

----------------------------------------------------------------------------
(* Watershed boundary, cell b639cd15 *)

\* The node whose discharge the simulation cell reads: discharge[26267].
OutletSampleNode == 26267

\* Grid sizes the DEM may have, and the nodes of the grid the model follows:
\* every other node lies outside the watershed mask.
GridSizes == {26267, 26268}
TrackedNodes(n) == {i \in {26266, 26267} : i < n}

\* status_at_node[~watershed_mask] = CLOSED ; status_at_node[outlet] = FIXED_VALUE
SetWatershedBoundary(status, mask, out) ==
    [i \in DOMAIN status |->
        IF i = out THEN "FIXED_VALUE"
        ELSE IF i \notin mask THEN "CLOSED"
        ELSE status[i]]

----------------------------------------------------------------------------
(* Simulation cell f28c0e9d *)

\* rainfall_intensity = 59.2/(100*3600) m/s, in units of 1/3600000 m/s
rainfall_intensity == 592

\* Python's range(start, stop, step) for step > 0, as a sequence
range(start, stop, step) ==
    LET n == IF stop > start THEN (stop - start + step - 1) \div step ELSE 0
    IN  [i \in 1..n |-> start + (i - 1) * step]

\* range(0, model_run_time + time_step, time_step)
RangeNoPadding(T, s) == range(0, T, s)
TimeSlices(T, s) == range(0, T + s, s)

\* while elapsed_time < time_slice
WhileCondInclusive(t, slice) == FloatLe(t, Fin(slice))
WhileCond(t, slice) == FloatLt(t, Fin(slice))

\* if elapsed_time < storm_duration: rainfall_intensity else 0.0
IntensityInclusive(t, storm) ==
    IF FloatLe(t, Fin(storm)) THEN rainfall_intensity ELSE 0
intensity_at(t, storm) ==
    IF FloatLt(t, Fin(storm)) THEN rainfall_intensity ELSE 0

\* if time_slice > 0
PlotCondFromZero(slice) == slice >= 0
PlotCond(slice) == slice > 0

\* Values calc_time_step() returns when the depth field is positive and
\* finite, and the values it may return otherwise.
DtValues == {Fin(20), Fin(30), Fin(70), Fin(700)}
DtFaultValues == DtValues \cup {Fin(0), Inf, NaN}

\* Run parameters: the notebook's own, and smaller runs.
NotebookConfig == [model_run_time |-> 1200, storm_duration |-> 600, time_step |-> 30]
RunConfigs ==
    {NotebookConfig} \cup
    [model_run_time : {0, 50, 90, 100}, storm_duration : {0, 40, 600}, time_step : {30, 40}]

Grids(sizes) ==
    {g \in [number_of_nodes : sizes, outlet : {26266, 26267},
            watershed_mask : SUBSET {26266, 26267}] :
        /\ g.watershed_mask \subseteq TrackedNodes(g.number_of_nodes)
        /\ g.outlet \in g.watershed_mask}

InitWith(sizes, configs) ==
    \E g \in Grids(sizes), c \in configs :
        /\ number_of_nodes = g.number_of_nodes
        /\ watershed_mask = g.watershed_mask
        /\ outlet = g.outlet
        /\ status_at_node =
             SetWatershedBoundary([i \in TrackedNodes(g.number_of_nodes) |-> "CORE"],
                                  g.watershed_mask, g.outlet)
        /\ model_run_time = c.model_run_time
        /\ storm_duration = c.storm_duration
        /\ time_step = c.time_step
        /\ elapsed_time = Fin(0)
        /\ dt = Fin(0)
        /\ of_rainfall_intensity = 0
        /\ of_calls = 0
        /\ outlet_discharge = <<>>
        /\ outlet_times = <<>>
        /\ iter = 0
        /\ time_slice = 0
        /\ saved_figs = <<>>
        /\ pc = "for"

\* Grids that hold the node the simulation cell reads.
Init == InitWith({n \in GridSizes : OutletSampleNode < n}, RunConfigs)

\* for time_slice in range(0, model_run_time + time_step, time_step)
ForLoop ==
    /\ pc = "for"
    /\ LET slices == TimeSlices(model_run_time, time_step)
       IN  IF iter < Len(slices)
           THEN /\ iter' = iter + 1
                /\ time_slice' = slices[iter + 1]
                /\ pc' = "while"
           ELSE /\ pc' = "done"
                /\ UNCHANGED <<iter, time_slice>>
    /\ UNCHANGED <<gridVars, cfgVars, elapsed_time, dt, of_rainfall_intensity,
                   of_calls, outlet_discharge, outlet_times, saved_figs>>

\* outlet_discharge.append(discharge[26267]) ; outlet_times.append(elapsed_time)
DropSample(series, x) == IF Len(series) >= 1 THEN series ELSE Append(series, x)
AppendSample(series, x) == Append(series, x)

\* elapsed_time += overland_flow.dt
AdvanceNothing(t, d) == t
Advance(t, d) == FloatAdd(t, d)

\* The time a sample records: outlet_times.append(elapsed_time) runs after
\* elapsed_time += overland_flow.dt, so it is the time after the sub-step.
SampleTimeBeforeAdvance(before, after) == before
SampleTime(before, after) == after

\* One pass of the body of the while statement, with d the value
\* calc_time_step() returns.
SubStep(d) ==
    /\ pc = "while"
    /\ WhileCond(elapsed_time, time_slice)
    /\ of_calls < MaxSubSteps
    /\ dt' = d
    /\ of_rainfall_intensity' = intensity_at(elapsed_time, storm_duration)
    /\ of_calls' = of_calls + 1
    /\ elapsed_time' = Advance(elapsed_time, d)
    /\ IF OutletSampleNode < number_of_nodes
       THEN /\ outlet_discharge' =
                  AppendSample(outlet_discharge,
                               [node |-> OutletSampleNode, step |-> of_calls + 1])
            /\ outlet_times' =
                  AppendSample(outlet_times, SampleTime(elapsed_time, elapsed_time'))
            /\ pc' = "while"
       ELSE \* IndexError raised by discharge[26267]: the cell stops
            /\ pc' = "error"
            /\ UNCHANGED <<outlet_discharge, outlet_times>>
    /\ UNCHANGED <<gridVars, cfgVars, iter, time_slice, saved_figs>>

\* The while condition is false: control reaches "if time_slice > 0".
WhileExit ==
    /\ pc = "while"
    /\ ~WhileCond(elapsed_time, time_slice)
    /\ pc' = "plot"
    /\ UNCHANGED <<gridVars, cfgVars, elapsed_time, dt, of_rainfall_intensity,
                   of_calls, outlet_discharge, outlet_times, iter, time_slice,
                   saved_figs>>

\* if time_slice > 0: plot outlet_times / outlet_discharge and save flow_{time_slice}.png
PlotResult ==
    /\ pc = "plot"
    /\ IF PlotCond(time_slice)
       THEN saved_figs' = Append(saved_figs,
                [time_slice |-> time_slice, times |-> outlet_times,
                 discharge |-> outlet_discharge])
       ELSE UNCHANGED saved_figs
    /\ pc' = "for"
    /\ UNCHANGED <<gridVars, cfgVars, elapsed_time, dt, of_rainfall_intensity,
                   of_calls, outlet_discharge, outlet_times, iter, time_slice>>

\* The driver loop with a statement that writes the boundary status inside it:
\* model_grid.status_at_node[26267] = model_grid.BC_NODE_IS_FIXED_VALUE
RewriteBoundary ==
    /\ pc = "plot"
    /\ OutletSampleNode \in DOMAIN status_at_node
    /\ status_at_node' = [status_at_node EXCEPT ![OutletSampleNode] = "FIXED_VALUE"]
    /\ UNCHANGED <<number_of_nodes, watershed_mask, outlet, cfgVars, elapsed_time, dt,
                   of_rainfall_intensity, of_calls, outlet_discharge, outlet_times,
                   iter, time_slice, saved_figs, pc>>

NextRewritingBoundary ==
    \/ ForLoop
    \/ \E d \in DtValues : SubStep(d)
    \/ WhileExit
    \/ PlotResult
    \/ RewriteBoundary

Next ==
    \/ ForLoop
    \/ \E d \in DtValues : SubStep(d)
    \/ WhileExit
    \/ PlotResult

Spec == Init /\ [][Next]_vars

\* The same cell when calc_time_step() may return any double.
NextFault ==
    \/ ForLoop
    \/ \E d \in DtFaultValues : SubStep(d)
    \/ WhileExit
    \/ PlotResult

SpecFault == Init /\ [][NextFault]_vars

\* The same cell on every grid size, the ones without node 26267 included.
InitGrid == InitWith(GridSizes, RunConfigs)

SpecGrid == InitGrid /\ [][Next]_vars

\* Runs short enough to end within MaxSubSteps sub-steps of the smallest dt.
\* The interpreter always executes the next statement: weak fairness of Next.
MinDt == CHOOSE m \in {d.v : d \in DtValues} : \A d \in DtValues : m <= d.v
LastSlice(c) ==
    LET slices == TimeSlices(c.model_run_time, c.time_step)
    IN  IF Len(slices) = 0 THEN 0 ELSE slices[Len(slices)]
InitLive ==
    InitWith({n \in GridSizes : OutletSampleNode < n},
             {c \in RunConfigs : LastSlice(c) <= MinDt * MaxSubSteps})

SpecLive == InitLive /\ [][Next]_vars /\ WF_vars(Next)

\* The state of the driver loop in the words of the design: the loop is at a
\* checkpoint when control is at "if time_slice > 0" with time_slice > 0.
DriverState ==
    IF pc = "done" THEN "FINISHED"
    ELSE IF pc = "plot" /\ PlotCond(time_slice) THEN "CHECKPOINT_REACHED"
    ELSE "RUNNING"

----------------------------------------------------------------------------
(* Claims *)

\* C1: with model_run_time = 1200 and time_step = 30 and positive sub-step
\* sizes, the figures saved are those of the checkpoints 30, 60, ..., in
\* strictly increasing order with none skipped and none repeated, the
\* time_slice = 0 iteration saves none, and a finished run has saved exactly 40.
C1_CheckpointOrdering ==
    (model_run_time = 1200 /\ time_step = 30) =>
        /\ Len(saved_figs) <= 40
        /\ \A i \in 1..Len(saved_figs) : saved_figs[i].time_slice = 30 * i
        /\ (pc = "done" => Len(saved_figs) = 40)

C1_Witness ==
    /\ model_run_time = 1200 /\ time_step = 30
    /\ pc = "done"
    /\ Len(saved_figs) = 40
    /\ of_calls >= 3

\* C2: in every state the two lists of the discharge series have one entry per
\* sub-step executed so far and the recorded times are in non-decreasing order;
\* every step leaves the lists as they are or appends one entry to each.
C2_SeriesInv ==
    /\ Len(outlet_times) = of_calls
    /\ Len(outlet_discharge) = Len(outlet_times)
    /\ \A i \in 1..(Len(outlet_times) - 1) : FloatLe(outlet_times[i], outlet_times[i + 1])

C2_SeriesStep ==
    /\ \/ outlet_times' = outlet_times
       \/ /\ Len(outlet_times') = Len(outlet_times) + 1
          /\ SubSeq(outlet_times', 1, Len(outlet_times)) = outlet_times
    /\ \/ outlet_discharge' = outlet_discharge
       \/ /\ Len(outlet_discharge') = Len(outlet_discharge) + 1
          /\ SubSeq(outlet_discharge', 1, Len(outlet_discharge)) = outlet_discharge

C2_DischargeSeries == [](C2_SeriesInv) /\ [][C2_SeriesStep]_vars

C2_Witness ==
    /\ Len(outlet_times) >= 4
    /\ Len(saved_figs) >= 2
    /\ outlet_times[1] # outlet_times[2]

\* C3: the rainfall intensity a sub-step applies is rainfall_intensity when the
\* elapsed time t at which it is evaluated lies in [0, storm_duration), and 0
\* when t >= storm_duration.
C3_RainfallStep ==
    (of_calls' = of_calls + 1) =>
        /\ (FloatLe(Fin(0), elapsed_time) /\ FloatLt(elapsed_time, Fin(storm_duration))
              => of_rainfall_intensity' = rainfall_intensity)
        /\ (FloatLe(Fin(storm_duration), elapsed_time) => of_rainfall_intensity' = 0)

C3_RainfallForcing == [][C3_RainfallStep]_vars

\* The last sub-step was evaluated at t = storm_duration exactly, after one in the storm.
C3_Witness ==
    /\ of_calls >= 2
    /\ storm_duration > 0
    /\ outlet_times[of_calls - 1] = Fin(storm_duration)
    /\ of_rainfall_intensity = 0

\* C5: when the grid has no FIXED_VALUE node, or the outlet index read by the
\* run lies outside the grid, no sub-step runs: no timestep is computed,
\* elapsed_time stays 0, the series stays empty and no figure is saved.
C5_FailsBeforeAnySubStep ==
    (\/ ~(\E i \in DOMAIN status_at_node : status_at_node[i] = "FIXED_VALUE")
     \/ ~(outlet < number_of_nodes)
     \/ ~(OutletSampleNode < number_of_nodes))
    => /\ of_calls = 0
       /\ elapsed_time = Fin(0)
       /\ outlet_times = <<>>
       /\ outlet_discharge = <<>>
       /\ saved_figs = <<>>

\* C6: after a sub-step whose dt is not finite, no further sub-step is
\* executed, no further sample is appended and no further figure is saved.
C6_StopStep ==
    (of_calls > 0 /\ ~IsFinite(dt)) =>
        /\ of_calls' = of_calls
        /\ outlet_times' = outlet_times
        /\ outlet_discharge' = outlet_discharge
        /\ saved_figs' = saved_figs

C6_NonFiniteIsFatal == [][C6_StopStep]_vars

\* C7: the timestep used by every sub-step is finite and strictly positive,
\* and elapsed_time strictly increases on every sub-step.
C7_PositiveFiniteDt ==
    (of_calls > 0) =>
        /\ IsFinite(dt)
        /\ dt.v > 0
        /\ (of_calls = 1 => FloatLt(Fin(0), outlet_times[1]))
        /\ \A i \in 1..(Len(outlet_times) - 1) : FloatLt(outlet_times[i], outlet_times[i + 1])

\* C8: for every run duration and checkpoint interval, dividing or not, the
\* last checkpoint of a finished run has a time >= model_run_time, and
\* elapsed_time >= model_run_time.
C8_FinalCheckpointCovers ==
    (pc = "done") =>
        /\ FloatLe(Fin(model_run_time), elapsed_time)
        /\ (model_run_time > 0 =>
              /\ Len(saved_figs) > 0
              /\ saved_figs[Len(saved_figs)].time_slice >= model_run_time)

C8_Witness ==
    /\ pc = "done"
    /\ model_run_time = 100 /\ time_step = 30
    /\ saved_figs[Len(saved_figs)].time_slice = 120
    /\ elapsed_time = Fin(120)

\* C9: when the checkpoint of time c is processed, elapsed_time >= c and
\* elapsed_time - c is less than the dt of the last sub-step; checkpoints are
\* processed in order, none skipped, and two checkpoints both passed by one
\* sub-step are processed with no sub-step between them.
C9_CheckpointOvershoot ==
    /\ (pc = "plot" /\ time_slice > 0) =>
          /\ of_calls > 0
          /\ FloatLe(Fin(time_slice), elapsed_time)
          /\ IsFinite(elapsed_time) /\ IsFinite(dt)
          /\ elapsed_time.v - time_slice < dt.v
    /\ \A i \in 1..(Len(saved_figs) - 1) :
          LET a == saved_figs[i]
              b == saved_figs[i + 1]
          IN  /\ b.time_slice = a.time_slice + time_step
              /\ (FloatLe(Fin(b.time_slice), a.times[Len(a.times)])
                    => b.times = a.times)

\* One sub-step passed the checkpoints 30 and 60, and both were processed.
C9_Witness ==
    /\ Len(saved_figs) >= 2
    /\ saved_figs[1].times = saved_figs[2].times
    /\ Len(saved_figs[1].times) = 1
    /\ pc = "plot" /\ time_slice > 0
    /\ of_calls >= 2

\* C10: with every dt at least MinDt > 0, every run reaches FINISHED and stays
\* there, and the driver moves only RUNNING -> RUNNING, RUNNING ->
\* CHECKPOINT_REACHED, CHECKPOINT_REACHED -> RUNNING and RUNNING -> FINISHED.
C10_DriverStep ==
    /\ (pc = "done" => pc' = "done")
    /\ <<DriverState, DriverState'>> \in
          {<<"RUNNING", "RUNNING">>, <<"RUNNING", "CHECKPOINT_REACHED">>,
           <<"CHECKPOINT_REACHED", "RUNNING">>, <<"RUNNING", "FINISHED">>,
           <<"FINISHED", "FINISHED">>}

C10_Termination == <>(pc = "done") /\ [][C10_DriverStep]_vars

C10_Witness ==
    /\ pc = "done"
    /\ of_calls >= 3
    /\ Len(saved_figs) >= 2
    /\ model_run_time > 0

\* C11: no step of the driver loop changes the grid's size or the boundary
\* status of a node, so the status of every node at the end of the run is the
\* one the watershed boundary cell gave it before the loop started.
C11_GridStep ==
    /\ number_of_nodes' = number_of_nodes
    /\ DOMAIN status_at_node' = DOMAIN status_at_node
    /\ \A i \in DOMAIN status_at_node : status_at_node'[i] = status_at_node[i]

C11_BoundaryStatusFrame ==
    /\ [][C11_GridStep]_vars
    /\ [](\A i \in DOMAIN status_at_node :
            status_at_node[i] = IF i = outlet THEN "FIXED_VALUE"
                                ELSE IF i \in watershed_mask THEN "CORE"
                                ELSE "CLOSED")

\* A finished run on a grid with a FIXED_VALUE, a CLOSED node and sub-steps done.
C11_Witness ==
    /\ pc = "done"
    /\ of_calls >= 2
    /\ Len(saved_figs) >= 2
    /\ \E i, j \in DOMAIN status_at_node :
          status_at_node[i] = "FIXED_VALUE" /\ status_at_node[j] = "CLOSED"

\* C12: every discharge sample is read at one and the same node, and that node
\* is the outlet that the watershed delineation marked FIXED_VALUE, on every
\* grid the delineation can produce.
C12_SamplesAtOutlet ==
    \A i \in 1..Len(outlet_discharge) :
        /\ outlet_discharge[i].node = outlet_discharge[1].node
        /\ outlet_discharge[i].node = outlet
        /\ status_at_node[outlet_discharge[i].node] = "FIXED_VALUE"

\* C13: once a sub-step has run, the last recorded time is the current
\* elapsed_time and no entry has time 0; the series every saved figure plots
\* holds one sample per sub-step executed before it, and its last time is >=
\* the figure's checkpoint time.
C13_SampleAfterAdvance ==
    /\ (of_calls > 0) => outlet_times[Len(outlet_times)] = elapsed_time
    /\ \A j \in 1..Len(outlet_times) : FloatLt(Fin(0), outlet_times[j])
    /\ \A i \in 1..Len(saved_figs) :
          LET f == saved_figs[i]
          IN  /\ Len(f.times) > 0
              /\ Len(f.discharge) = Len(f.times)
              /\ FloatLe(Fin(f.time_slice), f.times[Len(f.times)])
              /\ Len(f.times) <= Len(outlet_times)
              /\ f.times = SubSeq(outlet_times, 1, Len(f.times))
    /\ (pc = "for" /\ iter > 0 /\ PlotCond(time_slice)) =>
          /\ Len(saved_figs) > 0
          /\ saved_figs[Len(saved_figs)].times = outlet_times
          /\ Len(outlet_times) = of_calls

\* A figure was just saved whose series ends past its checkpoint time.
C13_Witness ==
    /\ pc = "for" /\ iter > 0 /\ PlotCond(time_slice)
    /\ Len(saved_figs) >= 2
    /\ of_calls >= 3
    /\ saved_figs[Len(saved_figs)].times = outlet_times
    /\ FloatLt(Fin(time_slice), elapsed_time)

\* C14: a sub-step takes its rainfall intensity from elapsed_time at its start
\* and holds it for its whole dt: one that starts before storm_duration rains
\* for all of its dt, also past storm_duration, and one that starts at or after
\* storm_duration does not rain.  Once the run has lasted storm_duration, the
\* time rained is >= storm_duration and exceeds it by less than the dt of the
\* last sub-step that rained.
C14_SubStepStart(i) == IF i = 1 THEN Fin(0) ELSE outlet_times[i - 1]
C14_Rained(i) == FloatLt(C14_SubStepStart(i), Fin(storm_duration))
C14_Duration(i) == outlet_times[i].v - C14_SubStepStart(i).v

RECURSIVE C14_RainTime(_)
C14_RainTime(n) ==
    IF n = 0 THEN 0
    ELSE C14_RainTime(n - 1) + (IF C14_Rained(n) THEN C14_Duration(n) ELSE 0)

C14_HeldStep ==
    (of_calls' = of_calls + 1) =>
        /\ dt' = Fin(elapsed_time'.v - elapsed_time.v)
        /\ IF FloatLt(elapsed_time, Fin(storm_duration))
           THEN of_rainfall_intensity' = rainfall_intensity
           ELSE of_rainfall_intensity' = 0

C14_TotalRain ==
    FloatLe(Fin(storm_duration), elapsed_time) =>
        LET total == C14_RainTime(Len(outlet_times))
            rainy == {i \in 1..Len(outlet_times) : C14_Rained(i)}
        IN  /\ total >= storm_duration
            /\ \/ total = storm_duration
               \/ \E k \in rainy :
                    /\ \A i \in rainy : i <= k
                    /\ total - storm_duration < C14_Duration(k)

C14_RainHeldForSubStep == [][C14_HeldStep]_vars /\ [](C14_TotalRain)

\* A finished run in which a sub-step started in the storm and ended after it.
C14_Witness ==
    /\ pc = "done"
    /\ model_run_time >= storm_duration
    /\ storm_duration > 0
    /\ of_calls >= 2
    /\ C14_RainTime(Len(outlet_times)) > storm_duration
    /\ of_rainfall_intensity = 0

====
